---- MODULE Spec2Model ----
(***************************************************************************)
(* A model of the client-side state machines of the AI-Fashion frontend    *)
(* (useWebSocket, useColorAnalysis, the SheetDB service, FeedbackPopup,    *)
(* useAuthLogic, the zustand stores, SecurityManager) and of the Monk       *)
(* palette seed script.                                                    *)
(***************************************************************************)
EXTENDS Integers, Sequences, FiniteSets, TLC

(***************************************************************************)
(* Bounds of the model.                                                    *)
(***************************************************************************)
\* WebSocket objects created over one behaviour (mounts and url changes)
MaxSockets == 3
\* analyzeImage invocations that may be in flight at once
MaxCalls == 2

\* JavaScript null
Null == "null"

(***************************************************************************)
(* State                                                                   *)
(***************************************************************************)
\* useWebSocket and useColorAnalysis
VARIABLES
    mounted,        \* the component using the hooks is mounted
    mountId,        \* which instance of the component is (or was last) mounted
    url,            \* the url argument of useWebSocket
    sockets,        \* every WebSocket created so far: [url, readyState, mount]
    wsRef,          \* wsRef.current: index into sockets, 0 for null
    isConnected,    \* useWebSocket's isConnected state
    analysisState,  \* useColorAnalysis's analysisState
    analysisIdRef,  \* analysisIdRef.current: the slot of the invocation, 0 for null
    calls           \* the analyzeImage invocations, by slot


\* the colors table and the seed script
VARIABLES
    colors,        \* the rows of the colors table, in insertion order
    sqlPc,         \* the statement of the script that runs next
    verification,  \* the result of the script's verification query
    palette        \* the last palette served for a tone


\* the SheetDB service
VARIABLES
    sheetCall,     \* the sendToSheetDB invocation followed
    authLog        \* the submitAuthForm calls made: input and record sent

\* FeedbackPopup
VARIABLES
    isVisible,     \* the isVisible prop
    currentStep,
    isSubmitting,
    isSubmitted,
    feedbackData,  \* the fields of feedbackData that the steps set
    submitPc,      \* where handleSubmit stands
    submitOutcome, \* how the awaited submitFeedbackForm settled
    closeTimer,    \* the 2000 ms timer that calls onClose
    resetTimer     \* the 300 ms timer that resets the form

\* useAuthLogic
VARIABLES
    authState,     \* [user, isLoading, isAuthenticated]
    authToken,     \* localStorage's auth_token
    checkAuthCall, \* the checkAuth invocation of the mount effect
    loginCall      \* the login invocation

\* useColorAnalysisStore
VARIABLES
    analysisHistory, \* the store's analysisHistory, newest first
    historyLog       \* every result added since the last clearHistory, newest first

\* useProductStore
VARIABLES
    recentlyViewed,  \* the store's recentlyViewed product ids
    viewed,          \* how many different products have been viewed so far
    reviews          \* how many calls named a product viewed before

\* SecurityManager.checkRateLimit
VARIABLES
    rateLimitMap,    \* the Map from endpoint to { count, resetTime }
    dateNow,         \* what Date.now() returns
    returned,        \* what the last checkRateLimit call returned
    windowLog        \* by endpoint, for the window its entry stands for: the
                     \* limits passed and the number of calls that returned true

\* SecurityManager.validateFileUpload
VARIABLES
    file,            \* the File passed
    validation       \* what validateFileUpload returned for it

wsVars == <<mounted, mountId, url, sockets, wsRef, isConnected>>
caVars == <<analysisState, analysisIdRef, calls>>
sqlVars == <<colors, sqlPc, verification, palette>>
sheetVars == <<sheetCall, authLog>>
feedbackVars == <<isVisible, currentStep, isSubmitting, isSubmitted,
                  feedbackData, submitPc, submitOutcome, closeTimer, resetTimer>>
authVars == <<authState, authToken, checkAuthCall, loginCall>>

historyVars == <<analysisHistory, historyLog>>
viewedVars == <<recentlyViewed, viewed, reviews>>
rateVars == <<rateLimitMap, dateNow, returned, windowLog>>
uploadVars == <<file, validation>>

vars == <<wsVars, caVars, sqlVars, sheetVars, feedbackVars, authVars,
          historyVars, viewedVars, rateVars, uploadVars>>

\* what the actions of one component leave alone
outsideAnalysis == <<sqlVars, sheetVars, feedbackVars, authVars,
    historyVars, viewedVars, rateVars, uploadVars>>
outsideSeed == <<wsVars, caVars, sheetVars, feedbackVars, authVars,
    historyVars, viewedVars, rateVars, uploadVars>>
outsideSheet == <<wsVars, caVars, sqlVars, feedbackVars, authVars,
    historyVars, viewedVars, rateVars, uploadVars>>
outsideFeedback == <<wsVars, caVars, sqlVars, sheetVars, authVars,
    historyVars, viewedVars, rateVars, uploadVars>>
outsideAuth == <<wsVars, caVars, sqlVars, sheetVars, feedbackVars,
    historyVars, viewedVars, rateVars, uploadVars>>
outsideHistory == <<wsVars, caVars, sqlVars, sheetVars, feedbackVars, authVars,
    viewedVars, rateVars, uploadVars>>
outsideViewed == <<wsVars, caVars, sqlVars, sheetVars, feedbackVars, authVars,
    historyVars, rateVars, uploadVars>>
outsideRate == <<wsVars, caVars, sqlVars, sheetVars, feedbackVars, authVars,
    historyVars, viewedVars, uploadVars>>
outsideUpload == <<wsVars, caVars, sqlVars, sheetVars, feedbackVars, authVars,
    historyVars, viewedVars, rateVars>>

(***************************************************************************)
(* useWebSocket (src/frontend/src/hooks/useWebSocket.ts) and               *)
(* useColorAnalysis (.../color-analysis/hooks/useColorAnalysis.ts)         *)
(***************************************************************************)

Urls == {"/api/ws/color-analysis", "/api/ws/other"}
AnalysisUrl == "/api/ws/color-analysis"

\* values carried by server messages and HTTP responses
ProgressValues == {-5, 40, 150}
ResultBodies == {"resultA", "resultB"}
ServerErrors == {"server error"}
ThrownMessages == {"Failed to fetch"}
ParseMessages == {"Unexpected token"}

CallIds == 1..MaxCalls

\* useState initial value, useColorAnalysis.ts:27-32
InitialAnalysisState ==
    [isAnalyzing |-> FALSE, result |-> Null, error |-> Null, progress |-> 0]

IdleCall ==
    [pc |-> "idle", conn |-> FALSE, posts |-> 0, sent |-> 0, outcome |-> "none"]

InitWS ==
    /\ mounted = FALSE
    /\ mountId = 0
    /\ url = AnalysisUrl
    /\ sockets = <<>>
    /\ wsRef = 0
    /\ isConnected = FALSE
    /\ analysisState = InitialAnalysisState
    /\ analysisIdRef = 0
    /\ calls = [c \in CallIds |-> IdleCall]

\* new WebSocket(url); wsRef.current = ws   (the effect body)
NewSocket(u, m) == [url |-> u, readyState |-> "CONNECTING", mount |-> m]

\* ws.close() in the effect's cleanup: a socket not yet closed starts closing
CloseCall(s) ==
    IF s.readyState \in {"CONNECTING", "OPEN"}
    THEN [s EXCEPT !.readyState = "CLOSING"]
    ELSE s

\* the handlers of socket i belong to the instance that created it; a state
\* setter of an unmounted instance does nothing
Live(i) == mounted /\ sockets[i].mount = mountId

\* first render and first run of the effect
Mount ==
    /\ ~mounted
    /\ Len(sockets) < MaxSockets
    /\ mounted' = TRUE
    /\ mountId' = mountId + 1
    /\ sockets' = Append(sockets, NewSocket(url, mountId + 1))
    /\ wsRef' = Len(sockets) + 1
    /\ isConnected' = FALSE
    /\ analysisState' = InitialAnalysisState
    /\ analysisIdRef' = 0
    /\ UNCHANGED <<url, calls>>
    /\ UNCHANGED outsideAnalysis

\* unmount: the effect's cleanup closes the socket the effect created
Unmount ==
    /\ mounted
    /\ mounted' = FALSE
    /\ sockets' = [sockets EXCEPT ![wsRef] = CloseCall(@)]
    /\ UNCHANGED <<mountId, url, wsRef, isConnected, caVars>>
    /\ UNCHANGED outsideAnalysis

\* the url argument changes: cleanup of the old effect, then the effect again
ChangeUrl(u) ==
    /\ mounted
    /\ u /= url
    /\ Len(sockets) < MaxSockets
    /\ url' = u
    /\ sockets' = Append([sockets EXCEPT ![wsRef] = CloseCall(@)],
                         NewSocket(u, mountId))
    /\ wsRef' = Len(sockets) + 1
    /\ UNCHANGED <<mounted, mountId, isConnected, caVars>>
    /\ UNCHANGED outsideAnalysis

\* ws.onopen
onopen(i) ==
    /\ sockets[i].readyState = "CONNECTING"
    /\ sockets' = [sockets EXCEPT ![i].readyState = "OPEN"]
    /\ isConnected' = IF Live(i) THEN TRUE ELSE isConnected
    /\ UNCHANGED <<mounted, mountId, url, wsRef, caVars>>
    /\ UNCHANGED outsideAnalysis

\* onclose as it would be with a reconnect: a live socket that closes is replaced
oncloseReconnect(i) ==
    /\ sockets[i].readyState /= "CLOSED"
    /\ IF Live(i) /\ Len(sockets) < MaxSockets
       THEN /\ sockets' = Append([sockets EXCEPT ![i].readyState = "CLOSED"],
                                 NewSocket(url, mountId))
            /\ wsRef' = Len(sockets) + 1
       ELSE /\ sockets' = [sockets EXCEPT ![i].readyState = "CLOSED"]
            /\ UNCHANGED wsRef
    /\ isConnected' = IF Live(i) THEN FALSE ELSE isConnected
    /\ UNCHANGED <<mounted, mountId, url, caVars>>
    /\ UNCHANGED outsideAnalysis

\* ws.onclose: the server closed, the connection failed, or close() finished
onclose(i) ==
    /\ sockets[i].readyState /= "CLOSED"
    /\ sockets' = [sockets EXCEPT ![i].readyState = "CLOSED"]
    /\ isConnected' = IF Live(i) THEN FALSE ELSE isConnected
    /\ UNCHANGED <<mounted, mountId, url, wsRef, caVars>>
    /\ UNCHANGED outsideAnalysis

\* the messages a server may push: the three types onMessage knows, a type it
\* does not know, and a frame that is not JSON
Messages ==
    [type : {"analysis_progress"}, progress : ProgressValues,
     result : {Null}, error : {Null}]
    \cup [type : {"analysis_complete"}, progress : {0},
          result : ResultBodies, error : {Null}]
    \cup [type : {"analysis_error"}, progress : {0},
          result : {Null}, error : ServerErrors]
    \cup [type : {"pong", "invalid_json"}, progress : {0},
          result : {Null}, error : {Null}]

\* onMessage as it would be if progress were clamped to 0..100
onMessageClamped(prev, data) ==
    IF data.type = "analysis_progress"
    THEN [prev EXCEPT !.progress =
             IF data.progress < 0 THEN 0
             ELSE IF data.progress > 100 THEN 100 ELSE data.progress]
    ELSE IF data.type = "analysis_complete"
    THEN [prev EXCEPT !.isAnalyzing = FALSE, !.result = data.result,
                      !.progress = 100]
    ELSE IF data.type = "analysis_error"
    THEN [prev EXCEPT !.isAnalyzing = FALSE, !.error = data.error,
                      !.progress = 0]
    ELSE prev

\* options.onMessage of useColorAnalysis: the state after setAnalysisState
onMessage(prev, data) ==
    IF data.type = "analysis_progress"
    THEN [prev EXCEPT !.progress = data.progress]
    ELSE IF data.type = "analysis_complete"
    THEN [prev EXCEPT !.isAnalyzing = FALSE, !.result = data.result,
                      !.progress = 100]
    ELSE IF data.type = "analysis_error"
    THEN [prev EXCEPT !.isAnalyzing = FALSE, !.error = data.error,
                      !.progress = 0]
    ELSE prev

\* ws.onmessage: JSON.parse, then options.onMessage; a frame that does not
\* parse is logged and dropped
onmessage(i, data) ==
    /\ sockets[i].readyState = "OPEN"
    /\ analysisState' =
         IF Live(i) /\ data.type /= "invalid_json"
         THEN onMessage(analysisState, data)
         ELSE analysisState
    /\ UNCHANGED <<wsVars, analysisIdRef, calls>>
    /\ UNCHANGED outsideAnalysis

\* sendMessage: the message reaches WebSocket.send only when the socket that
\* wsRef holds is OPEN; otherwise it is dropped without a word. The number of
\* messages one call of sendMessage puts on the wire
sendMessage == IF wsRef /= 0 /\ sockets[wsRef].readyState = "OPEN" THEN 1 ELSE 0

AnalyzingState ==
    [isAnalyzing |-> TRUE, result |-> Null, error |-> Null, progress |-> 0]

FailedState(message) ==
    [isAnalyzing |-> FALSE, result |-> Null, error |-> message, progress |-> 0]

DoneState(body) ==
    [isAnalyzing |-> FALSE, result |-> body, error |-> Null, progress |-> 100]

\* analyzeImage from `if (isConnected)` on, for the invocation in slot c whose
\* closure holds conn as isConnected
StartChannel(c, conn) ==
    IF conn
    THEN /\ analysisIdRef' = c
         /\ calls' = [calls EXCEPT ![c] =
                [pc |-> "done", conn |-> conn, posts |-> 0,
                 sent |-> sendMessage,
                 outcome |-> IF sendMessage = 1 THEN "sent" ELSE "dropped"]]
    ELSE /\ calls' = [calls EXCEPT ![c] =
                [pc |-> "fetching", conn |-> conn, posts |-> 1, sent |-> 0,
                 outcome |-> "none"]]
         /\ UNCHANGED analysisIdRef

\* a new invocation takes the lowest slot that holds no invocation in flight
FreeSlot(c) ==
    /\ calls[c].pc \in {"idle", "done"}
    /\ \A d \in 1..(c - 1) : calls[d].pc \notin {"idle", "done"}

\* analyzeImage(imageFile) up to its first await: a string goes straight to the
\* channel choice, a File is read first
analyzeImage(c, kind) ==
    /\ mounted
    /\ FreeSlot(c)
    /\ analysisState' = AnalyzingState
    /\ IF kind = "string"
       THEN StartChannel(c, isConnected)
       ELSE /\ calls' = [calls EXCEPT ![c] =
                   [pc |-> "reading", conn |-> isConnected, posts |-> 0,
                    sent |-> 0, outcome |-> "none"]]
            /\ UNCHANGED analysisIdRef
    /\ UNCHANGED wsVars
    /\ UNCHANGED outsideAnalysis

\* the FileReader finished: onload resolves, onerror rejects with an event
\* that is no Error
readerSettled(c, loaded) ==
    /\ calls[c].pc = "reading"
    /\ IF loaded
       THEN /\ StartChannel(c, calls[c].conn)
            /\ UNCHANGED analysisState
       ELSE /\ analysisState' = FailedState("Analysis failed")
            /\ calls' = [calls EXCEPT ![c].pc = "done", ![c].outcome = "read_error"]
            /\ UNCHANGED analysisIdRef
    /\ UNCHANGED wsVars
    /\ UNCHANGED outsideAnalysis

\* fetchSettled as it would be if a non-OK response were retried once
fetchSettledRetry(c, how) ==
    /\ calls[c].pc = "fetching"
    /\ \/ /\ how = "ok"
          /\ calls' = [calls EXCEPT ![c].pc = "parsing"]
          /\ UNCHANGED analysisState
       \/ /\ how = "not_ok"
          /\ IF calls[c].posts < 2
             THEN /\ calls' = [calls EXCEPT ![c].posts = @ + 1]
                  /\ UNCHANGED analysisState
             ELSE /\ analysisState' = FailedState("Analysis failed")
                  /\ calls' = [calls EXCEPT ![c].pc = "done", ![c].outcome = "http_error"]
       \/ /\ how \in ThrownMessages
          /\ analysisState' = FailedState(how)
          /\ calls' = [calls EXCEPT ![c].pc = "done", ![c].outcome = "threw"]
    /\ UNCHANGED <<wsVars, analysisIdRef>>
    /\ UNCHANGED outsideAnalysis

\* the fallback fetch settled: an OK response, a non-OK response, or a rejection
fetchSettled(c, how) ==
    /\ calls[c].pc = "fetching"
    /\ \/ /\ how = "ok"
          /\ calls' = [calls EXCEPT ![c].pc = "parsing"]
          /\ UNCHANGED analysisState
       \/ /\ how = "not_ok"
          /\ analysisState' = FailedState("Analysis failed")
          /\ calls' = [calls EXCEPT ![c].pc = "done", ![c].outcome = "http_error"]
       \/ /\ how \in ThrownMessages
          /\ analysisState' = FailedState(how)
          /\ calls' = [calls EXCEPT ![c].pc = "done", ![c].outcome = "threw"]
    /\ UNCHANGED <<wsVars, analysisIdRef>>
    /\ UNCHANGED outsideAnalysis

\* await response.json() settled: the parsed body, or a rejection
jsonSettled(c, how) ==
    /\ calls[c].pc = "parsing"
    /\ \/ /\ how \in ResultBodies
          /\ analysisState' = DoneState(how)
          /\ calls' = [calls EXCEPT ![c].pc = "done", ![c].outcome = "ok"]
       \/ /\ how \in ParseMessages
          /\ analysisState' = FailedState(how)
          /\ calls' = [calls EXCEPT ![c].pc = "done", ![c].outcome = "parse_error"]
    /\ UNCHANGED <<wsVars, analysisIdRef>>
    /\ UNCHANGED outsideAnalysis

\* cancelAnalysis: a cancel_analysis message goes to sendMessage when a call
\* has set the ref and isConnected holds; sent or not, the state is reset
cancelAnalysis ==
    /\ mounted
    /\ analysisState' = InitialAnalysisState
    /\ analysisIdRef' = 0
    /\ UNCHANGED <<wsVars, calls>>
    /\ UNCHANGED outsideAnalysis

clearResults ==
    /\ mounted
    /\ analysisState' = InitialAnalysisState
    /\ UNCHANGED <<wsVars, analysisIdRef, calls>>
    /\ UNCHANGED outsideAnalysis

(***************************************************************************)
(* The Monk palette seed script (src/backend/backend/add_monk_colors.sql)  *)
(***************************************************************************)
\* the skin-tone scale the script's header names: Monk01 .. Monk10
MonkTones ==
    {"Monk01", "Monk02", "Monk03", "Monk04", "Monk05",
     "Monk06", "Monk07", "Monk08", "Monk09", "Monk10"}

Categories == {"recommended", "avoid"}

\* the VALUES lists of the ten INSERT statements, in the column order
\* (hex_code, color_name, suitable_skin_tone, seasonal_palette, category)
MonkValues ==
  <<
    <<  <<"#003057", "Navy Blue", "Monk01", "Light Spring", "recommended">>,
        <<"#F395C7", "Soft Pink", "Monk01", "Light Spring", "recommended">>,
        <<"#A277A6", "Lavender", "Monk01", "Light Spring", "recommended">>,
        <<"#009775", "Emerald", "Monk01", "Light Spring", "recommended">>,
        <<"#890C58", "Burgundy", "Monk01", "Light Spring", "recommended">>,
        <<"#0057B8", "Cobalt Blue", "Monk01", "Light Spring", "recommended">>,
        <<"#F88379", "Soft Coral", "Monk01", "Light Spring", "recommended">>,
        <<"#9BCBEB", "Powder Blue", "Monk01", "Light Spring", "recommended">>,
        <<"#FFA500", "Orange", "Monk01", "Light Spring", "avoid">>,
        <<"#800000", "Maroon", "Monk01", "Light Spring", "avoid">> >>,
    <<  <<"#9BCBEB", "Powder Blue", "Monk02", "Light Spring", "recommended">>,
        <<"#86647A", "Soft Plum", "Monk02", "Light Spring", "recommended">>,
        <<"#D592AA", "Dusty Rose", "Monk02", "Light Spring", "recommended">>,
        <<"#57728B", "Slate Blue", "Monk02", "Light Spring", "recommended">>,
        <<"#00B0B9", "Soft Teal", "Monk02", "Light Spring", "recommended">>,
        <<"#C4A4A7", "Mauve", "Monk02", "Light Spring", "recommended">>,
        <<"#F08080", "Light Coral", "Monk02", "Light Spring", "recommended">>,
        <<"#CCCCFF", "Periwinkle", "Monk02", "Light Spring", "recommended">>,
        <<"#8B4513", "Saddle Brown", "Monk02", "Light Spring", "avoid">>,
        <<"#2F4F4F", "Dark Slate Gray", "Monk02", "Light Spring", "avoid">> >>,
    <<  <<"#FCC89B", "Peach", "Monk03", "Clear Spring", "recommended">>,
        <<"#A5DFD3", "Mint", "Monk03", "Clear Spring", "recommended">>,
        <<"#FF8D6D", "Coral", "Monk03", "Clear Spring", "recommended">>,
        <<"#F5E1A4", "Light Yellow", "Monk03", "Clear Spring", "recommended">>,
        <<"#A4DBE8", "Aqua", "Monk03", "Clear Spring", "recommended">>,
        <<"#FAAA8D", "Soft Pink", "Monk03", "Clear Spring", "recommended">>,
        <<"#FBCEB1", "Apricot", "Monk03", "Clear Spring", "recommended">>,
        <<"#87CEEB", "Sky Blue", "Monk03", "Clear Spring", "recommended">>,
        <<"#000080", "Navy", "Monk03", "Clear Spring", "avoid">>,
        <<"#4B0082", "Indigo", "Monk03", "Clear Spring", "avoid">> >>,
    <<  <<"#FDAA63", "Warm Beige", "Monk04", "Warm Spring", "recommended">>,
        <<"#FFB81C", "Golden Yellow", "Monk04", "Warm Spring", "recommended">>,
        <<"#FF8F1C", "Apricot", "Monk04", "Warm Spring", "recommended">>,
        <<"#FFA38B", "Coral", "Monk04", "Warm Spring", "recommended">>,
        <<"#74AA50", "Warm Green", "Monk04", "Warm Spring", "recommended">>,
        <<"#2DCCD3", "Turquoise", "Monk04", "Warm Spring", "recommended">>,
        <<"#E6C200", "Honey", "Monk04", "Warm Spring", "recommended">>,
        <<"#FF8C00", "Warm Orange", "Monk04", "Warm Spring", "recommended">>,
        <<"#800080", "Purple", "Monk04", "Warm Spring", "avoid">>,
        <<"#708090", "Slate Gray", "Monk04", "Warm Spring", "avoid">> >>,
    <<  <<"#008EAA", "Turquoise", "Monk05", "Soft Autumn", "recommended">>,
        <<"#FFCD00", "Clear Yellow", "Monk05", "Soft Autumn", "recommended">>,
        <<"#FF8D6D", "Bright Coral", "Monk05", "Soft Autumn", "recommended">>,
        <<"#963CBD", "Violet", "Monk05", "Soft Autumn", "recommended">>,
        <<"#00A499", "Bright Green", "Monk05", "Soft Autumn", "recommended">>,
        <<"#E40046", "Watermelon", "Monk05", "Soft Autumn", "recommended">>,
        <<"#FFBF00", "Amber", "Monk05", "Soft Autumn", "recommended">>,
        <<"#4169E1", "Royal Blue", "Monk05", "Soft Autumn", "recommended">>,
        <<"#F0E68C", "Khaki", "Monk05", "Soft Autumn", "avoid">>,
        <<"#B22222", "Fire Brick", "Monk05", "Soft Autumn", "avoid">> >>,
    <<  <<"#B89D18", "Mustard", "Monk06", "Warm Autumn", "recommended">>,
        <<"#9D4815", "Rust", "Monk06", "Warm Autumn", "recommended">>,
        <<"#A09958", "Olive", "Monk06", "Warm Autumn", "recommended">>,
        <<"#C4622D", "Burnt Orange", "Monk06", "Warm Autumn", "recommended">>,
        <<"#00778B", "Teal", "Monk06", "Warm Autumn", "recommended">>,
        <<"#205C40", "Forest Green", "Monk06", "Warm Autumn", "recommended">>,
        <<"#B87333", "Copper", "Monk06", "Warm Autumn", "recommended">>,
        <<"#B8860B", "Deep Gold", "Monk06", "Warm Autumn", "recommended">>,
        <<"#FF69B4", "Hot Pink", "Monk06", "Warm Autumn", "avoid">>,
        <<"#00FFFF", "Cyan", "Monk06", "Warm Autumn", "avoid">> >>,
    <<  <<"#890C58", "Burgundy", "Monk07", "Deep Autumn", "recommended">>,
        <<"#5C462B", "Chocolate", "Monk07", "Deep Autumn", "recommended">>,
        <<"#00594C", "Deep Teal", "Monk07", "Deep Autumn", "recommended">>,
        <<"#9D4815", "Rust", "Monk07", "Deep Autumn", "recommended">>,
        <<"#5E7E29", "Olive", "Monk07", "Deep Autumn", "recommended">>,
        <<"#A6631B", "Terracotta", "Monk07", "Deep Autumn", "recommended">>,
        <<"#228B22", "Forest Green", "Monk07", "Deep Autumn", "recommended">>,
        <<"#CD7F32", "Bronze", "Monk07", "Deep Autumn", "recommended">>,
        <<"#FFB6C1", "Light Pink", "Monk07", "Deep Autumn", "avoid">>,
        <<"#E0E0E0", "Light Gray", "Monk07", "Deep Autumn", "avoid">> >>,
    <<  <<"#E3006D", "Hot Pink", "Monk08", "Deep Winter", "recommended">>,
        <<"#0057B8", "Cobalt Blue", "Monk08", "Deep Winter", "recommended">>,
        <<"#CE0037", "True Red", "Monk08", "Deep Winter", "recommended">>,
        <<"#963CBD", "Violet", "Monk08", "Deep Winter", "recommended">>,
        <<"#009775", "Emerald", "Monk08", "Deep Winter", "recommended">>,
        <<"#FFB81C", "Gold", "Monk08", "Deep Winter", "recommended">>,
        <<"#800080", "Royal Purple", "Monk08", "Deep Winter", "recommended">>,
        <<"#FFCD00", "Bright Yellow", "Monk08", "Deep Winter", "recommended">>,
        <<"#D2B48C", "Tan", "Monk08", "Deep Winter", "avoid">>,
        <<"#F5DEB3", "Wheat", "Monk08", "Deep Winter", "avoid">> >>,
    <<  <<"#890C58", "Deep Claret", "Monk09", "Cool Winter", "recommended">>,
        <<"#00594C", "Forest Green", "Monk09", "Cool Winter", "recommended">>,
        <<"#CE0037", "True Red", "Monk09", "Cool Winter", "recommended">>,
        <<"#002D72", "Navy", "Monk09", "Cool Winter", "recommended">>,
        <<"#84329B", "Amethyst", "Monk09", "Cool Winter", "recommended">>,
        <<"#FEFEFE", "White", "Monk09", "Cool Winter", "recommended">>,
        <<"#C0C0C0", "Silver", "Monk09", "Cool Winter", "recommended">>,
        <<"#301934", "Deep Purple", "Monk09", "Cool Winter", "recommended">>,
        <<"#D2691E", "Chocolate", "Monk09", "Cool Winter", "avoid">>,
        <<"#F4A460", "Sandy Brown", "Monk09", "Cool Winter", "avoid">> >>,
    <<  <<"#E3006D", "Hot Pink", "Monk10", "Clear Winter", "recommended">>,
        <<"#0057B8", "Cobalt Blue", "Monk10", "Clear Winter", "recommended">>,
        <<"#CE0037", "True Red", "Monk10", "Clear Winter", "recommended">>,
        <<"#FFCD00", "Bright Yellow", "Monk10", "Clear Winter", "recommended">>,
        <<"#009775", "Emerald", "Monk10", "Clear Winter", "recommended">>,
        <<"#FEFEFE", "White", "Monk10", "Clear Winter", "recommended">>,
        <<"#0000FF", "Electric Blue", "Monk10", "Clear Winter", "recommended">>,
        <<"#66FF00", "Bright Green", "Monk10", "Clear Winter", "recommended">>,
        <<"#800000", "Maroon", "Monk10", "Clear Winter", "avoid">>,
        <<"#556B2F", "Dark Olive Green", "Monk10", "Clear Winter", "avoid">> >>
  >>

Row(v) ==
    [hex_code |-> v[1], color_name |-> v[2], suitable_skin_tone |-> v[3],
     seasonal_palette |-> v[4], category |-> v[5]]

NumInserts == Len(MonkValues)

\* the rows of statement k with every category misspelt
InsertRowsMisspelt(k) ==
    [n \in 1..Len(MonkValues[k]) |->
        [Row(MonkValues[k][n]) EXCEPT !.category =
            IF k = NumInserts /\ @ = "avoid" THEN "avoided" ELSE @]]

\* the rows the k-th INSERT statement adds
InsertRows(k) == [n \in 1..Len(MonkValues[k]) |-> Row(MonkValues[k][n])]

InitSQL ==
    /\ colors = <<>>
    /\ sqlPc = 1
    /\ verification = {}
    /\ palette = [skin_tone_id |-> Null, recommended_colors |-> <<>>,
                  colors_to_avoid |-> <<>>]

\* one INSERT INTO colors ... VALUES statement
RunInsert ==
    /\ sqlPc <= NumInserts
    /\ colors' = colors \o InsertRows(sqlPc)
    /\ sqlPc' = sqlPc + 1
    /\ UNCHANGED <<verification, palette>>
    /\ UNCHANGED outsideSeed

\* SELECT suitable_skin_tone, category, COUNT(*) ... WHERE suitable_skin_tone
\* LIKE 'Monk%' GROUP BY suitable_skin_tone, category
IsMonk(tone) == tone \in MonkTones

CountRows(tone, category) ==
    Cardinality({n \in 1..Len(colors) :
        /\ colors[n].suitable_skin_tone = tone
        /\ colors[n].category = category})

VerificationQuery ==
    {<<colors[n].suitable_skin_tone, colors[n].category,
       CountRows(colors[n].suitable_skin_tone, colors[n].category)>> :
        n \in {m \in 1..Len(colors) : IsMonk(colors[m].suitable_skin_tone)}}

RunVerification ==
    /\ sqlPc = NumInserts + 1
    /\ verification' = VerificationQuery
    /\ sqlPc' = sqlPc + 1
    /\ UNCHANGED <<colors, palette>>
    /\ UNCHANGED outsideSeed

\* the palette served for a tone: the tone's rows, split by category
PaletteOf(table, tone) ==
    [skin_tone_id |-> tone,
     recommended_colors |->
        SelectSeq(table, LAMBDA r : r.suitable_skin_tone = tone
                                      /\ r.category = "recommended"),
     colors_to_avoid |->
        SelectSeq(table, LAMBDA r : r.suitable_skin_tone = tone
                                      /\ r.category = "avoid")]

LookupPalette(tone) ==
    /\ palette' = PaletteOf(colors, tone)
    /\ UNCHANGED <<colors, sqlPc, verification>>
    /\ UNCHANGED outsideSeed

NextSeed ==
    \/ RunInsert
    \/ RunVerification
    \/ \E tone \in MonkTones : LookupPalette(tone)


(***************************************************************************)
(* The SheetDB service (src/frontend/src/services/sheetdb.ts)              *)
(***************************************************************************)

\* the AuthFormData values submitted: password is optional
Names == {"Ada"}
Emails == {"ada@example.com", "bob@example.com"}
Passwords == {"hunter2", "letmein"}

AuthForms ==
    {("name" :> n) @@ ("email" :> e) : n \in Names, e \in Emails}
    \cup {("name" :> n) @@ ("email" :> e) @@ ("password" :> p) :
             n \in Names, e \in Emails, p \in Passwords}

FormTypes == {"signup", "login"}

\* the values new Date().toISOString() may give
Timestamps == {"2025-01-01T00:00:00.000Z", "2025-01-01T00:00:01.000Z"}

\* submitAuthForm calls kept in authLog
MaxAuthLog == 2

IdleSheetCall ==
    [pc |-> "idle", posts |-> 0, responseOk |-> "none", result |-> "pending",
     outcome |-> "none"]

InitSheet ==
    /\ sheetCall = IdleSheetCall
    /\ authLog = <<>>

\* dataToSend with the line that the source has commented out put back
dataToSendWithPassword(form, formType, now) ==
    LET record == [name |-> form.name, email |-> form.email, timestamp |-> now,
                   type |-> IF formType = "signup" THEN "user_signup"
                                                   ELSE "user_login"]
    IN  IF "password" \in DOMAIN form
        THEN record @@ ("password" :> form.password)
        ELSE record

\* dataToSend of submitAuthForm
dataToSend(form, formType, now) ==
    [name |-> form.name, email |-> form.email, timestamp |-> now,
     type |-> IF formType = "signup" THEN "user_signup" ELSE "user_login"]

\* sendToSheetDB up to `await fetch`: one POST is issued
sendToSheetDB ==
    [pc |-> "fetching", posts |-> 1, responseOk |-> "none", result |-> "pending",
     outcome |-> "none"]

\* submitAuthForm(formData, formType): builds dataToSend and hands it to
\* sendToSheetDB; invocations of sendToSheetDB share nothing, one is followed
\* at a time
submitAuthForm(form, formType, now) ==
    /\ sheetCall.pc \in {"idle", "done"}
    /\ Len(authLog) < MaxAuthLog
    /\ authLog' = Append(authLog, [form |-> form, formType |-> formType,
                                   record |-> dataToSend(form, formType, now)])
    /\ sheetCall' = sendToSheetDB
    /\ UNCHANGED outsideSheet

\* sendToSheetDB's fetch settled; a rejection is caught and gives false
sheetFetchSettled(how) ==
    /\ sheetCall.pc = "fetching"
    /\ \/ /\ how = "ok"
          /\ sheetCall' = [sheetCall EXCEPT !.pc = "json", !.responseOk = "ok"]
       \/ /\ how = "not_ok"
          /\ sheetCall' = [sheetCall EXCEPT !.pc = "text", !.responseOk = "not_ok"]
       \/ /\ how = "rejected"
          /\ sheetCall' = [sheetCall EXCEPT !.pc = "done", !.result = "false",
                                              !.outcome = "network_error"]
    /\ UNCHANGED <<authLog, outsideSheet>>

\* sheetJsonSettled as it would be if any OK response meant success
sheetJsonSettledAlwaysTrue(parsed) ==
    /\ sheetCall.pc = "json"
    /\ sheetCall' = [sheetCall EXCEPT !.pc = "done", !.result = "true",
                         !.outcome = IF parsed THEN "ok" ELSE "parse_error"]
    /\ UNCHANGED <<authLog, outsideSheet>>

\* await response.json() of an OK response settled: parsed gives true, a
\* rejection is caught and gives false
sheetJsonSettled(parsed) ==
    /\ sheetCall.pc = "json"
    /\ sheetCall' =
          IF parsed
          THEN [sheetCall EXCEPT !.pc = "done", !.result = "true", !.outcome = "ok"]
          ELSE [sheetCall EXCEPT !.pc = "done", !.result = "false",
                                  !.outcome = "parse_error"]
    /\ UNCHANGED <<authLog, outsideSheet>>

\* await response.text() of a non-OK response settled: with the text the
\* function throws its own Error, without it the rejection; both are caught
sheetTextSettled(read) ==
    /\ sheetCall.pc = "text"
    /\ sheetCall' = [sheetCall EXCEPT !.pc = "done", !.result = "false",
                         !.outcome = IF read THEN "http_error" ELSE "text_error"]
    /\ UNCHANGED <<authLog, outsideSheet>>

NextSheetDB ==
    \/ \E form \in AuthForms, formType \in FormTypes, now \in Timestamps :
          submitAuthForm(form, formType, now)
    \/ \E how \in {"ok", "not_ok", "rejected"} : sheetFetchSettled(how)
    \/ \E parsed \in BOOLEAN : sheetJsonSettled(parsed)
    \/ \E read \in BOOLEAN : sheetTextSettled(read)

(***************************************************************************)
(* FeedbackPopup (src/frontend/src/hooks/useWebSocket.ts, from line 61)    *)
(***************************************************************************)

\* the emotions of renderStep1 and the ratings of renderStep2
Emotions == {"love", "like", "okay", "not-great", "dislike"}
Ratings == 1..5

\* useState initial value of feedbackData; issues, improvements,
\* wouldRecommend, stylePersonality and confidenceBoost move no step
InitialFeedbackData == [emotion |-> "", rating |-> 0]

InitFeedback ==
    /\ isVisible = FALSE
    /\ currentStep = 1
    /\ isSubmitting = FALSE
    /\ isSubmitted = FALSE
    /\ feedbackData = InitialFeedbackData
    /\ submitPc = "idle"
    /\ submitOutcome = "none"
    /\ closeTimer = FALSE
    /\ resetTimer = FALSE

\* a step's buttons are rendered when the popup is visible, not submitted and
\* at that step
Rendered(step) == isVisible /\ ~isSubmitted /\ currentStep = step

\* the parent shows the popup
showPopup ==
    /\ ~isVisible
    /\ isVisible' = TRUE
    /\ UNCHANGED <<currentStep, isSubmitting, isSubmitted, feedbackData,
                   submitPc, submitOutcome, closeTimer, resetTimer>>
    /\ UNCHANGED outsideFeedback

\* the X button: onClose
closePopup ==
    /\ isVisible
    /\ isVisible' = FALSE
    /\ UNCHANGED <<currentStep, isSubmitting, isSubmitted, feedbackData,
                   submitPc, submitOutcome, closeTimer, resetTimer>>
    /\ UNCHANGED outsideFeedback

\* handleEmotionSelect without the style-personality branch
handleEmotionSelectNoQuiz(emotion) ==
    /\ Rendered(1)
    /\ feedbackData' = [feedbackData EXCEPT !.emotion = emotion]
    /\ currentStep' = 2
    /\ UNCHANGED <<isVisible, isSubmitting, isSubmitted, submitPc,
                   submitOutcome, closeTimer, resetTimer>>
    /\ UNCHANGED outsideFeedback

handleEmotionSelect(emotion) ==
    /\ Rendered(1)
    /\ feedbackData' = [feedbackData EXCEPT !.emotion = emotion]
    /\ currentStep' = IF emotion = "love" \/ emotion = "like" THEN 5 ELSE 2
    /\ UNCHANGED <<isVisible, isSubmitting, isSubmitted, submitPc,
                   submitOutcome, closeTimer, resetTimer>>
    /\ UNCHANGED outsideFeedback

handleRatingSelect(rating) ==
    /\ Rendered(2)
    /\ feedbackData' = [feedbackData EXCEPT !.rating = rating]
    /\ currentStep' = 3
    /\ UNCHANGED <<isVisible, isSubmitting, isSubmitted, submitPc,
                   submitOutcome, closeTimer, resetTimer>>
    /\ UNCHANGED outsideFeedback

\* the continue buttons of renderStep3 and renderStep5: setCurrentStep(4)
continueToStep4(from) ==
    /\ from \in {3, 5}
    /\ Rendered(from)
    /\ currentStep' = 4
    /\ UNCHANGED <<isVisible, isSubmitting, isSubmitted, feedbackData, submitPc,
                   submitOutcome, closeTimer, resetTimer>>
    /\ UNCHANGED outsideFeedback

\* handleSubmit up to `await submitFeedbackForm(payload)`; the button of
\* renderStep4 is disabled while isSubmitting
handleSubmit ==
    /\ Rendered(4)
    /\ ~isSubmitting
    /\ isSubmitting' = TRUE
    /\ submitPc' = "awaiting"
    /\ submitOutcome' = "none"
    /\ UNCHANGED <<isVisible, currentStep, isSubmitted, feedbackData,
                   closeTimer, resetTimer>>
    /\ UNCHANGED outsideFeedback

\* handleSubmit's tail as it would be if only a stored feedback showed success
handleSubmitSettledHonest(how) ==
    /\ submitPc = "awaiting"
    /\ isSubmitted' = (how = "true")
    /\ closeTimer' = (how = "true")
    /\ isSubmitting' = FALSE
    /\ submitPc' = "idle"
    /\ submitOutcome' = how
    /\ UNCHANGED <<isVisible, currentStep, feedbackData, resetTimer>>
    /\ UNCHANGED outsideFeedback

\* the awaited submitFeedbackForm settled (true, false, or a rejection): the
\* try and the catch both set isSubmitted and start the 2000 ms timer, the
\* finally clears isSubmitting
handleSubmitSettled(how) ==
    /\ submitPc = "awaiting"
    /\ isSubmitted' = TRUE
    /\ closeTimer' = TRUE
    /\ isSubmitting' = FALSE
    /\ submitPc' = "idle"
    /\ submitOutcome' = how
    /\ UNCHANGED <<isVisible, currentStep, feedbackData, resetTimer>>
    /\ UNCHANGED outsideFeedback

\* the 2000 ms timer: onClose(), and the 300 ms timer starts
closeTimerFired ==
    /\ closeTimer
    /\ closeTimer' = FALSE
    /\ isVisible' = FALSE
    /\ resetTimer' = TRUE
    /\ UNCHANGED <<currentStep, isSubmitting, isSubmitted, feedbackData,
                   submitPc, submitOutcome>>
    /\ UNCHANGED outsideFeedback

\* the 300 ms timer: the form is reset
resetTimerFired ==
    /\ resetTimer
    /\ resetTimer' = FALSE
    /\ currentStep' = 1
    /\ isSubmitted' = FALSE
    /\ feedbackData' = InitialFeedbackData
    /\ UNCHANGED <<isVisible, isSubmitting, submitPc, submitOutcome, closeTimer>>
    /\ UNCHANGED outsideFeedback

NextFeedback ==
    \/ showPopup
    \/ closePopup
    \/ \E emotion \in Emotions : handleEmotionSelect(emotion)
    \/ \E rating \in Ratings : handleRatingSelect(rating)
    \/ \E from \in {3, 5} : continueToStep4(from)
    \/ handleSubmit
    \/ \E how \in {"true", "false", "threw"} : handleSubmitSettled(how)
    \/ closeTimerFired
    \/ resetTimerFired


(***************************************************************************)
(* useAuthLogic (src/frontend/src/features/auth/hooks/useAuth.ts)          *)
(***************************************************************************)

\* the users the backend may return, the token an earlier session may have
\* left in localStorage, and the token a login returns
Users == {"ada", "bob"}
StoredTokens == {"token-old"}
LoginTokens == {"token-new"}

IdleAuthCall == [pc |-> "idle", outcome |-> "none"]

\* the errors a rejected fetch or a rejected response.json() carries
FetchErrors == {"TypeError: Failed to fetch"}
JsonErrors == {"SyntaxError"}

\* a login invocation also carries the error it rejected with, and user and
\* isAuthenticated as they were when it was called
IdleLoginCall ==
    [pc |-> "idle", outcome |-> "none", error |-> Null,
     before |-> [user |-> Null, isAuthenticated |-> FALSE]]

\* useState initial value of authState
InitAuth ==
    /\ authState = [user |-> Null, isLoading |-> TRUE, isAuthenticated |-> FALSE]
    /\ authToken = Null
    /\ checkAuthCall = IdleAuthCall
    /\ loginCall = IdleLoginCall

\* setAuthState(prev => ({ ...prev, isLoading: false }))
LoadingDone(prev) == [prev EXCEPT !.isLoading = FALSE]

\* the mount effect: checkAuth up to its first await. stored is what
\* localStorage holds for auth_token when the hook mounts
checkAuth(stored) ==
    /\ checkAuthCall.pc = "idle"
    /\ authToken' = stored
    /\ IF stored /= Null
       THEN /\ checkAuthCall' = [pc |-> "validating", outcome |-> "none"]
            /\ UNCHANGED authState
       ELSE /\ checkAuthCall' = [pc |-> "done", outcome |-> "no_token"]
            /\ authState' = LoadingDone(authState)
    /\ UNCHANGED <<loginCall, outsideAuth>>

\* the fetch of /api/auth/validate settled
checkAuthFetchSettled(how) ==
    /\ checkAuthCall.pc = "validating"
    /\ \/ /\ how = "ok"
          /\ checkAuthCall' = [pc |-> "json", outcome |-> "none"]
          /\ UNCHANGED <<authState, authToken>>
       \/ /\ how = "not_ok"
          /\ authToken' = Null
          /\ authState' = LoadingDone(authState)
          /\ checkAuthCall' = [pc |-> "done", outcome |-> "invalid"]
       \/ /\ how = "rejected"
          /\ authState' = LoadingDone(authState)
          /\ checkAuthCall' = [pc |-> "done", outcome |-> "threw"]
          /\ UNCHANGED authToken
    /\ UNCHANGED <<loginCall, outsideAuth>>

\* await response.json() of the validation settled: a user, or a rejection
checkAuthJsonSettled(how) ==
    /\ checkAuthCall.pc = "json"
    /\ \/ /\ how \in Users
          /\ authState' = [user |-> how, isLoading |-> FALSE,
                           isAuthenticated |-> TRUE]
          /\ checkAuthCall' = [pc |-> "done", outcome |-> "valid"]
       \/ /\ how = "rejected"
          /\ authState' = LoadingDone(authState)
          /\ checkAuthCall' = [pc |-> "done", outcome |-> "parse_error"]
    /\ UNCHANGED <<authToken, loginCall, outsideAuth>>

\* login(email, password) up to `await fetch`
login ==
    /\ checkAuthCall.pc /= "idle"
    /\ loginCall.pc \in {"idle", "done"}
    /\ authState' = [authState EXCEPT !.isLoading = TRUE]
    /\ loginCall' =
          [pc |-> "fetching", outcome |-> "none", error |-> Null,
           before |-> [user |-> authState.user,
                       isAuthenticated |-> authState.isAuthenticated]]
    /\ UNCHANGED <<authToken, checkAuthCall, outsideAuth>>

loginFetchSettledKeepsLoading(how) ==
    /\ loginCall.pc = "fetching"
    /\ \/ /\ how = "ok"
          /\ loginCall' = [loginCall EXCEPT !.pc = "json"]
          /\ UNCHANGED authState
       \/ /\ how = "not_ok"
          /\ UNCHANGED authState
          /\ loginCall' = [loginCall EXCEPT !.pc = "done",
                                            !.outcome = "rejected",
                                            !.error = "Login failed"]
       \/ /\ how \in FetchErrors
          /\ UNCHANGED authState
          /\ loginCall' = [loginCall EXCEPT !.pc = "done",
                                            !.outcome = "rejected",
                                            !.error = how]
    /\ UNCHANGED <<authToken, checkAuthCall, outsideAuth>>

\* the fetch of /api/auth/login settled: a non-OK response throws 'Login
\* failed', which the catch rethrows after clearing isLoading
loginFetchSettled(how) ==
    /\ loginCall.pc = "fetching"
    /\ \/ /\ how = "ok"
          /\ loginCall' = [loginCall EXCEPT !.pc = "json"]
          /\ UNCHANGED authState
       \/ /\ how = "not_ok"
          /\ authState' = LoadingDone(authState)
          /\ loginCall' = [loginCall EXCEPT !.pc = "done",
                                            !.outcome = "rejected",
                                            !.error = "Login failed"]
       \/ /\ how \in FetchErrors
          /\ authState' = LoadingDone(authState)
          /\ loginCall' = [loginCall EXCEPT !.pc = "done",
                                            !.outcome = "rejected",
                                            !.error = how]
    /\ UNCHANGED <<authToken, checkAuthCall, outsideAuth>>

\* await response.json() of the login settled
loginJsonSettled(user, token) ==
    /\ loginCall.pc = "json"
    /\ \/ /\ user \in Users
          /\ authToken' = token
          /\ authState' = [user |-> user, isLoading |-> FALSE,
                           isAuthenticated |-> TRUE]
          /\ loginCall' = [loginCall EXCEPT !.pc = "done",
                                            !.outcome = "resolved"]
       \/ /\ user \in JsonErrors
          /\ authState' = LoadingDone(authState)
          /\ loginCall' = [loginCall EXCEPT !.pc = "done",
                                            !.outcome = "rejected",
                                            !.error = user]
          /\ UNCHANGED authToken
    /\ UNCHANGED <<checkAuthCall, outsideAuth>>

logout ==
    /\ checkAuthCall.pc /= "idle"
    /\ authToken' = Null
    /\ authState' = [user |-> Null, isLoading |-> FALSE, isAuthenticated |-> FALSE]
    /\ UNCHANGED <<checkAuthCall, loginCall, outsideAuth>>

NextAuth ==
    \/ \E stored \in StoredTokens \cup {Null} : checkAuth(stored)
    \/ \E how \in {"ok", "not_ok", "rejected"} : checkAuthFetchSettled(how)
    \/ \E how \in Users \cup {"rejected"} : checkAuthJsonSettled(how)
    \/ login
    \/ \E how \in {"ok", "not_ok"} \cup FetchErrors : loginFetchSettled(how)
    \/ \E user \in Users \cup JsonErrors, token \in LoginTokens :
          loginJsonSettled(user, token)
    \/ logout


(***************************************************************************)
(* The zustand stores (src/start-microservices.sh)                         *)
(***************************************************************************)

\* Array.prototype.slice(from, to) for 0 <= from <= to
Slice(s, from, to) ==
    SubSeq(s, from + 1, IF to < Len(s) THEN to ELSE Len(s))

\* the analysis results a caller may add
Results == {"warm-autumn", "cool-winter"}

\* the entries of the old history that addToHistory keeps behind the new one
HistoryKept == 9

\* additions followed between two clearHistory calls
MaxAdds == 12

\* the store's initial state
InitHistory ==
    /\ analysisHistory = <<>>
    /\ historyLog = <<>>

addToHistoryKeepsTen(result) ==
    /\ Len(historyLog) < MaxAdds
    /\ analysisHistory' = <<result>> \o Slice(analysisHistory, 0, HistoryKept + 1)
    /\ historyLog' = <<result>> \o historyLog
    /\ UNCHANGED outsideHistory

\* analysisHistory: [result, ...state.analysisHistory.slice(0, 9)]
addToHistory(result) ==
    /\ Len(historyLog) < MaxAdds
    /\ analysisHistory' = <<result>> \o Slice(analysisHistory, 0, HistoryKept)
    /\ historyLog' = <<result>> \o historyLog
    /\ UNCHANGED outsideHistory

clearHistory ==
    /\ analysisHistory' = <<>>
    /\ historyLog' = <<>>
    /\ UNCHANGED outsideHistory

NextHistory ==
    \/ \E result \in Results : addToHistory(result)
    \/ clearHistory

\* the length recentlyViewed is cut to
RecentlyViewedLimit == 20

\* different products viewed over one behaviour, named 1, 2, ... in the
\* order of their first view
MaxProducts == 22

\* calls over one behaviour that name a product viewed before
MaxReviews == 2

InitViewed ==
    /\ recentlyViewed = <<>>
    /\ viewed = 0
    /\ reviews = 0

\* the product ids followed as the next argument: the next product never
\* viewed, and, among those viewed before, the first product of all (which
\* may have left the list) and the first, second and last entries of the list
Viewable ==
    (IF viewed < MaxProducts THEN {viewed + 1} ELSE {})
    \cup (IF reviews < MaxReviews /\ viewed > 0
          THEN {1} \cup {recentlyViewed[i] :
                            i \in {1, 2, Len(recentlyViewed)}
                                     \cap DOMAIN recentlyViewed}
          ELSE {})

addToRecentlyViewedNoFilter(productId) ==
    /\ recentlyViewed' =
          Slice(<<productId>> \o recentlyViewed, 0, RecentlyViewedLimit)
    /\ viewed' = IF productId > viewed THEN productId ELSE viewed
    /\ reviews' = IF productId > viewed THEN reviews ELSE reviews + 1
    /\ UNCHANGED outsideViewed

\* recentlyViewed: [productId, ...state.recentlyViewed.filter(
\*     (id) => id !== productId)].slice(0, 20)
addToRecentlyViewed(productId) ==
    /\ recentlyViewed' =
          Slice(<<productId>>
                   \o SelectSeq(recentlyViewed, LAMBDA id : id /= productId),
                0, RecentlyViewedLimit)
    /\ viewed' = IF productId > viewed THEN productId ELSE viewed
    /\ reviews' = IF productId > viewed THEN reviews ELSE reviews + 1
    /\ UNCHANGED outsideViewed

NextRecentlyViewed ==
    \E productId \in Viewable : addToRecentlyViewed(productId)

(***************************************************************************)
(* SecurityManager (src/backend/Dockerfile)                                *)
(***************************************************************************)

\* the endpoint keys, limits and window lengths callers pass
Endpoints == {"/api/analyze", "/api/products"}
Limits == {0, 1, 2}
WindowMs == {0, 2}

\* the clock stops here
MaxNow == 4

NoWindow == [limits |-> {}, granted |-> 0]

\* the field initialiser of rateLimitMap: an empty Map
InitRate ==
    /\ rateLimitMap = [key \in {} |-> 0]
    /\ dateNow = 0
    /\ returned = FALSE
    /\ windowLog = [key \in Endpoints |-> NoWindow]

\* time passes between two calls
Tick ==
    /\ dateNow < MaxNow
    /\ dateNow' = dateNow + 1
    /\ UNCHANGED <<rateLimitMap, returned, windowLog, outsideRate>>

\* rateLimitMap.set(key, value)
MapSet(map, key, value) ==
    [k \in DOMAIN map \cup {key} |-> IF k = key THEN value ELSE map[k]]

\* `!current || now > current.resetTime`: the call opens a window
OpensWindow(key) ==
    \/ key \notin DOMAIN rateLimitMap
    \/ dateNow > rateLimitMap[key].resetTime

\* windowLog after a call with this limit that returned result
Logged(endpoint, limit, result, opens) ==
    LET old == IF opens THEN NoWindow ELSE windowLog[endpoint]
    IN  [windowLog EXCEPT ![endpoint] =
            [limits |-> old.limits \cup {limit},
             granted |-> old.granted + (IF result THEN 1 ELSE 0)]]

checkRateLimit(endpoint, limit, windowMs) ==
    LET key == endpoint
        current == rateLimitMap[key]
    IN  /\ IF OpensWindow(key)
           THEN /\ rateLimitMap' =
                      MapSet(rateLimitMap, key,
                             [count |-> 1, resetTime |-> dateNow + windowMs])
                /\ returned' = TRUE
           ELSE IF current.count >= limit
           THEN /\ returned' = FALSE
                /\ UNCHANGED rateLimitMap
           ELSE /\ rateLimitMap' =
                      [rateLimitMap EXCEPT ![key].count = current.count + 1]
                /\ returned' = TRUE
        /\ windowLog' = Logged(endpoint, limit, returned', OpensWindow(key))
        /\ UNCHANGED <<dateNow, outsideRate>>

NextRateLimit ==
    \/ Tick
    \/ \E endpoint \in Endpoints, limit \in Limits, windowMs \in WindowMs :
          checkRateLimit(endpoint, limit, windowMs)

\* file.type and file.size of the files passed
FileTypes ==
    {"image/jpeg", "image/png", "image/gif", "image/webp",
     "image/svg+xml", "image/jpg", "IMAGE/PNG", "application/pdf", ""}
FileSizes ==
    {0, 1, 10 * 1024 * 1024 - 1, 10 * 1024 * 1024, 10 * 1024 * 1024 + 1,
     20 * 1024 * 1024, 2147483647}
Files == [type : FileTypes, size : FileSizes]

NoFile == [type |-> "none", size |-> 0]
NotValidated == [isValid |-> FALSE, error |-> "not validated"]

allowedTypes == {"image/jpeg", "image/png", "image/gif", "image/webp"}
maxSize == 10 * 1024 * 1024

InitUpload ==
    /\ file = NoFile
    /\ validation = NotValidated

\* a caller picks the file to validate
selectFile(f) ==
    /\ file' = f
    /\ validation' = NotValidated
    /\ UNCHANGED outsideUpload

validateFileUploadSizeFirst(f) ==
    IF f.size > maxSize
    THEN [isValid |-> FALSE, error |-> "File too large. Maximum size is 10MB."]
    ELSE IF f.type \notin allowedTypes
    THEN [isValid |-> FALSE,
          error |-> "Invalid file type. Only images are allowed."]
    ELSE [isValid |-> TRUE, error |-> Null]

\* what validateFileUpload(file) returns; error is Null where the object
\* returned has no error
validateFileUpload(f) ==
    IF f.type \notin allowedTypes
    THEN [isValid |-> FALSE,
          error |-> "Invalid file type. Only images are allowed."]
    ELSE IF f.size > maxSize
    THEN [isValid |-> FALSE, error |-> "File too large. Maximum size is 10MB."]
    ELSE [isValid |-> TRUE, error |-> Null]

\* the call of validateFileUpload on the file picked
validateSelected ==
    /\ file /= NoFile
    /\ validation = NotValidated
    /\ validation' = validateFileUpload(file)
    /\ UNCHANGED <<file, outsideUpload>>

NextUpload ==
    \/ \E f \in Files : selectFile(f)
    \/ validateSelected

Init ==
    /\ InitWS /\ InitSQL /\ InitSheet /\ InitFeedback /\ InitAuth
    /\ InitHistory /\ InitViewed /\ InitRate /\ InitUpload

\* useWebSocket under any parent: mounts, unmounts and url changes
NextWebSocket ==
    \/ Mount
    \/ Unmount
    \/ \E u \in Urls : ChangeUrl(u)
    \/ \E i \in 1..Len(sockets) : onopen(i)
    \/ \E i \in 1..Len(sockets) : onclose(i)
    \/ \E i \in 1..Len(sockets), data \in Messages : onmessage(i, data)

SpecWebSocket == Init /\ [][NextWebSocket]_vars

\* useColorAnalysis: the hook mounted with its one url, and its operations
NextColorAnalysis ==
    \/ Mount
    \/ \E i \in 1..Len(sockets) : onopen(i)
    \/ \E i \in 1..Len(sockets) : onclose(i)
    \/ \E i \in 1..Len(sockets), data \in Messages : onmessage(i, data)
    \/ \E c \in CallIds, kind \in {"string", "File"} : analyzeImage(c, kind)
    \/ \E c \in CallIds, loaded \in BOOLEAN : readerSettled(c, loaded)
    \/ \E c \in CallIds, how \in {"ok", "not_ok"} \cup ThrownMessages : fetchSettled(c, how)
    \/ \E c \in CallIds, how \in ResultBodies \cup ParseMessages : jsonSettled(c, how)
    \/ cancelAnalysis
    \/ clearResults

SpecColorAnalysis == Init /\ [][NextColorAnalysis]_vars

SpecSeed == Init /\ [][NextSeed]_vars

SpecSheetDB == Init /\ [][NextSheetDB]_vars

SpecFeedback == Init /\ [][NextFeedback]_vars

SpecAuth == Init /\ [][NextAuth]_vars

SpecHistory == Init /\ [][NextHistory]_vars

SpecRecentlyViewed == Init /\ [][NextRecentlyViewed]_vars

SpecRateLimit == Init /\ [][NextRateLimit]_vars

SpecUpload == Init /\ [][NextUpload]_vars

(***************************************************************************)
(* Properties of useWebSocket and useColorAnalysis                         *)
(***************************************************************************)

\* C1: an 'analysis_progress' message, whatever the state before it, sets
\* progress to exactly the value it carries and leaves isAnalyzing, result and
\* error as they were.
C1_ProgressMessageFrame ==
    [][\A i \in 1..Len(sockets) : \A data \in Messages :
          (data.type = "analysis_progress" /\ onmessage(i, data))
              => analysisState' = [isAnalyzing |-> analysisState.isAnalyzing,
                                   result |-> analysisState.result,
                                   error |-> analysisState.error,
                                   progress |-> data.progress]]_vars

\* a progress message took effect outside 0..100 and after a completed analysis
C1_Witness ==
    /\ analysisState.progress = 150
    /\ analysisState.result /= Null
    /\ ~analysisState.isAnalyzing

\* C2 as stated: a call made while not connected issues exactly one POST; an
\* OK response ends in the result state, a non-OK response or a rejected fetch
\* in the error state.
C2_Original ==
    [][\A c \in CallIds :
          /\ (~calls'[c].conn /\ calls[c].pc /= "done" /\ calls'[c].pc = "done")
                => calls'[c].posts = 1
          /\ (calls[c].pc = "parsing" /\ calls'[c].pc = "done")
                => \E body \in ResultBodies : analysisState' = DoneState(body)
          /\ fetchSettled(c, "not_ok")
                => analysisState' = FailedState("Analysis failed")
          /\ \A m \in ThrownMessages :
                fetchSettled(c, m) => analysisState' = FailedState(m)]_vars

\* C2 amended: a call made while not connected whose image is read issues
\* exactly one POST and never a second; it ends in the result state when the
\* response is OK and its body parses, and in the error state (without a
\* result, progress 0) when the response is not OK ('Analysis failed'), the
\* fetch rejects or the body does not parse (the thrown message); a call whose
\* image cannot be read issues no POST and ends in the error state.
C2_FallbackOutcomes ==
    /\ [](\A c \in CallIds :
            /\ calls[c].posts <= 1
            /\ calls[c].pc \in {"fetching", "parsing"}
                  => (calls[c].posts = 1 /\ ~calls[c].conn)
            /\ (calls[c].pc = "done" /\ ~calls[c].conn)
                  => calls[c].posts = (IF calls[c].outcome = "read_error" THEN 0 ELSE 1))
    /\ [][\A c \in CallIds :
            /\ \A body \in ResultBodies :
                  jsonSettled(c, body)
                     => (analysisState' = DoneState(body) /\ calls'[c].pc = "done")
            /\ \A m \in ParseMessages :
                  jsonSettled(c, m)
                     => (analysisState' = FailedState(m) /\ calls'[c].pc = "done")
            /\ fetchSettled(c, "not_ok")
                  => (analysisState' = FailedState("Analysis failed")
                      /\ calls'[c].pc = "done")
            /\ \A m \in ThrownMessages :
                  fetchSettled(c, m)
                     => (analysisState' = FailedState(m) /\ calls'[c].pc = "done")
            /\ readerSettled(c, FALSE)
                  => (analysisState' = FailedState("Analysis failed")
                      /\ calls'[c].pc = "done" /\ calls'[c].posts = 0)]_vars

\* one fallback call ended with a result while another ended on a non-OK response
C2_Witness ==
    \E c, d \in CallIds :
        /\ calls[c].pc = "done" /\ calls[c].outcome = "ok" /\ calls[c].posts = 1
        /\ calls[d].pc = "done" /\ calls[d].outcome = "http_error" /\ calls[d].posts = 1

\* C3: within one mount and one url the hook creates one WebSocket and never
\* another: the socket count grows only by one and only on a mount or a url
\* change, wsRef holds the socket of the current mount and url, and once that
\* socket has closed isConnected is false for as long as the mount and the url last.
C3_NoReconnect ==
    /\ [](mounted =>
            /\ wsRef = Len(sockets)
            /\ sockets[wsRef].url = url
            /\ sockets[wsRef].mount = mountId
            /\ sockets[wsRef].readyState = "CLOSED" => ~isConnected)
    /\ [][Len(sockets') /= Len(sockets)
            => /\ Len(sockets') = Len(sockets) + 1
               /\ (mountId' /= mountId \/ url' /= url)]_vars

\* the socket of the current mount and url was open and has closed
C3_Witness ==
    /\ mounted
    /\ Len(sockets) >= 2
    /\ sockets[wsRef].readyState = "CLOSED"
    /\ ~isConnected

\* C5: a call whose image was read has started the analysis on exactly one
\* channel when it ends: one start_analysis message sent, or one POST issued.
C5_OneChannel ==
    \A c \in CallIds :
        (calls[c].pc = "done" /\ calls[c].outcome /= "read_error")
            => calls[c].sent + calls[c].posts = 1

(***************************************************************************)
(* Properties of the seed script                                           *)
(***************************************************************************)

\* C4: every row the script inserts has a tone of Monk01..Monk10 and the
\* category 'recommended' or 'avoid'; once the script has run, every tone of
\* the scale has a 'recommended' row and an 'avoid' row, so the palette of any
\* tone has a non-empty recommended list and a non-empty avoid list.
C4_SeedCoversScale ==
    /\ \A n \in 1..Len(colors) :
          /\ colors[n].suitable_skin_tone \in MonkTones
          /\ colors[n].category \in Categories
    /\ sqlPc > NumInserts =>
          \A tone \in MonkTones :
             /\ \E n \in 1..Len(colors) :
                   /\ colors[n].suitable_skin_tone = tone
                   /\ colors[n].category = "recommended"
             /\ \E n \in 1..Len(colors) :
                   /\ colors[n].suitable_skin_tone = tone
                   /\ colors[n].category = "avoid"
             /\ PaletteOf(colors, tone).recommended_colors /= <<>>
             /\ PaletteOf(colors, tone).colors_to_avoid /= <<>>
    /\ sqlPc > NumInserts + 1 =>
          \A tone \in MonkTones : \A category \in Categories :
             \E g \in verification : g[1] = tone /\ g[2] = category /\ g[3] >= 1

\* the script has run and the palette of the last tone of the scale was served
C4_Witness ==
    /\ sqlPc = NumInserts + 2
    /\ palette.skin_tone_id = "Monk10"
    /\ Len(palette.recommended_colors) = 8
    /\ Len(palette.colors_to_avoid) = 2

(***************************************************************************)
(* Properties of the SheetDB service                                       *)
(***************************************************************************)

\* what a form says apart from its password
WithoutPassword(form) == [k \in DOMAIN form \ {"password"} |-> form[k]]

\* C6: the record submitAuthForm hands to sendToSheetDB has exactly the keys
\* name, email, timestamp and type, type is 'user_signup' for 'signup' and
\* 'user_login' for 'login', no value of it is the password, and two calls
\* whose forms differ only in password send the same record apart from the
\* timestamp.
C6_PasswordNeverSent ==
    /\ \A n \in 1..Len(authLog) :
          LET a == authLog[n] IN
          /\ DOMAIN a.record = {"name", "email", "timestamp", "type"}
          /\ a.record.type = (IF a.formType = "signup" THEN "user_signup"
                                                       ELSE "user_login")
          /\ a.record.name = a.form.name
          /\ a.record.email = a.form.email
          /\ "password" \in DOMAIN a.form =>
                \A k \in DOMAIN a.record : a.record[k] /= a.form.password
    /\ \A n, m \in 1..Len(authLog) :
          (/\ authLog[n].formType = authLog[m].formType
           /\ WithoutPassword(authLog[n].form) = WithoutPassword(authLog[m].form))
             => [k \in DOMAIN authLog[n].record \ {"timestamp"} |-> authLog[n].record[k]]
                = [k \in DOMAIN authLog[m].record \ {"timestamp"} |-> authLog[m].record[k]]

\* two calls were made with forms that differ in password and nothing else
C6_Witness ==
    /\ Len(authLog) = 2
    /\ authLog[1].formType = authLog[2].formType
    /\ "password" \in DOMAIN authLog[1].form
    /\ "password" \in DOMAIN authLog[2].form
    /\ authLog[1].form.password /= authLog[2].form.password
    /\ WithoutPassword(authLog[1].form) = WithoutPassword(authLog[2].form)

\* C7 as stated: a finished sendToSheetDB has issued one POST and has resolved
\* to true exactly when the response was OK.
C7_Original ==
    sheetCall.pc = "done" =>
        /\ sheetCall.posts = 1
        /\ sheetCall.result \in {"true", "false"}
        /\ sheetCall.result = "true" <=> sheetCall.responseOk = "ok"

\* C7 amended: sendToSheetDB never throws and issues exactly one POST per
\* call; it resolves to true if and only if the response is OK and its body
\* parses as JSON, and to false for every non-OK response and for every
\* network or parsing error.
C7_TrueIffOkAndParsed ==
    /\ sheetCall.posts <= 1
    /\ sheetCall.pc /= "idle" => sheetCall.posts = 1
    /\ sheetCall.pc = "done" =>
          /\ sheetCall.result \in {"true", "false"}
          /\ sheetCall.result = "true" <=>
                (sheetCall.responseOk = "ok" /\ sheetCall.outcome = "ok")
          /\ sheetCall.responseOk = "not_ok" => sheetCall.result = "false"
          /\ sheetCall.outcome \in {"network_error", "parse_error", "text_error"}
                => sheetCall.result = "false"
    /\ sheetCall.pc /= "done" => sheetCall.result = "pending"

\* a call ended false although the response was OK: its body did not parse
C7_Witness ==
    /\ sheetCall.pc = "done"
    /\ sheetCall.responseOk = "ok"
    /\ sheetCall.outcome = "parse_error"
    /\ sheetCall.result = "false"

(***************************************************************************)
(* Properties of FeedbackPopup                                             *)
(***************************************************************************)

\* C8: when handleSubmit completes, isSubmitted is true and isSubmitting is
\* false, whether submitFeedbackForm returned true, returned false, or threw.
C8_AlwaysShowsSuccess ==
    [][(submitPc = "awaiting" /\ submitPc' = "idle")
          => (isSubmitted' /\ ~isSubmitting'
              /\ submitOutcome' \in {"true", "false", "threw"})]_vars

\* a submission that failed shows success
C8_Witness ==
    /\ submitPc = "idle"
    /\ submitOutcome \in {"false", "threw"}
    /\ isSubmitted
    /\ ~isSubmitting

\* C9: the step changes only 1 -> 5 on 'love' or 'like', 1 -> 2 on any other
\* emotion, 2 -> 3 on a rating, 3 -> 4 and 5 -> 4 on continue, and back to 1
\* only by the reset that follows a submission; handleSubmit starts only at
\* step 4.
C9_StepFlow ==
    /\ [][currentStep' /= currentStep =>
            \/ /\ currentStep = 1
               /\ feedbackData'.emotion \in {"love", "like"}
               /\ currentStep' = 5
            \/ /\ currentStep = 1
               /\ feedbackData'.emotion \in Emotions \ {"love", "like"}
               /\ currentStep' = 2
            \/ /\ currentStep = 2
               /\ feedbackData'.rating \in Ratings
               /\ currentStep' = 3
            \/ currentStep = 3 /\ currentStep' = 4
            \/ currentStep = 5 /\ currentStep' = 4
            \/ /\ currentStep = 4 /\ currentStep' = 1
               /\ isSubmitted /\ ~isSubmitted']_vars
    /\ [][(submitPc = "idle" /\ submitPc' = "awaiting") => currentStep = 4]_vars
    /\ [](submitPc = "awaiting" \/ isSubmitted => currentStep = 4)

\* a positive emotion reached the submit step through the style step
C9_Witness ==
    /\ currentStep = 4
    /\ feedbackData.emotion = "love"
    /\ feedbackData.rating = 0
    /\ submitPc = "awaiting"

(***************************************************************************)
(* Properties of useAuthLogic                                              *)
(***************************************************************************)

\* C10, its clause for a stored token and a non-OK validation: when checkAuth
\* ends that way isLoading is false, the token is gone from localStorage and
\* the state is unauthenticated.
C10_NonOkEndsUnauthenticated ==
    [][checkAuthFetchSettled("not_ok")
          => /\ ~authState'.isLoading
             /\ authToken' = Null
             /\ ~authState'.isAuthenticated
             /\ authState'.user = Null]_vars

\* C15 as stated: when login's request returns a non-OK response or throws,
\* login rejects with that error, auth_token is not written, isLoading is
\* false again, and user and isAuthenticated are what they were before the
\* call.
C15_Original ==
    [][\A how \in {"not_ok"} \cup FetchErrors :
          loginFetchSettled(how)
             => /\ loginCall'.outcome = "rejected"
                /\ loginCall'.error = (IF how = "not_ok" THEN "Login failed"
                                                         ELSE how)
                /\ authToken' = authToken
                /\ ~authState'.isLoading
                /\ authState'.user = loginCall.before.user
                /\ authState'.isAuthenticated
                      = loginCall.before.isAuthenticated]_vars

\* C15, amended: when login's request returns a non-OK response or throws,
\* login rejects with that error, auth_token is not written, isLoading is
\* false again, and user and isAuthenticated stay what they are when the
\* failure is handled (checkAuth or logout may have changed them since the
\* call).
C15_FailureKeepsCurrentState ==
    [][\A how \in {"not_ok"} \cup FetchErrors :
          loginFetchSettled(how)
             => /\ loginCall'.outcome = "rejected"
                /\ loginCall'.error = (IF how = "not_ok" THEN "Login failed"
                                                         ELSE how)
                /\ authToken' = authToken
                /\ ~authState'.isLoading
                /\ authState'.user = authState.user
                /\ authState'.isAuthenticated = authState.isAuthenticated]_vars

\* a login called while unauthenticated has failed with 'Login failed', and
\* the state is authenticated all the same
C15_Witness ==
    /\ loginCall.pc = "done"
    /\ loginCall.outcome = "rejected"
    /\ loginCall.error = "Login failed"
    /\ ~loginCall.before.isAuthenticated
    /\ authState.isAuthenticated
    /\ ~authState.isLoading
    /\ authToken /= Null

(***************************************************************************)
(* Properties of the zustand stores                                        *)
(***************************************************************************)

\* C11: analysisHistory has at most 10 entries, and they are the most recent
\* additions since the last clearHistory, newest first (so its first entry is
\* the result added last).
C11_LastTenNewestFirst ==
    /\ Len(analysisHistory) <= 10
    /\ analysisHistory =
          SubSeq(historyLog, 1,
                 IF Len(historyLog) < 10 THEN Len(historyLog) ELSE 10)

\* more than ten results were added, not all the same, and the oldest was
\* dropped
C11_Witness ==
    /\ Len(historyLog) > 10
    /\ Len(analysisHistory) = 10
    /\ historyLog[1] /= historyLog[2]
    /\ historyLog[11] /= analysisHistory[10]

\* C12: recentlyViewed has at most 20 entries and no product id twice, and
\* after a call of addToRecentlyViewed its first entry is the id passed.
C12_LastTwentyDistinct ==
    /\ [](/\ Len(recentlyViewed) <= 20
          /\ \A i, j \in DOMAIN recentlyViewed :
                recentlyViewed[i] = recentlyViewed[j] => i = j)
    /\ [][\A productId \in 1..MaxProducts :
             addToRecentlyViewed(productId)
                => recentlyViewed'[1] = productId]_vars

\* the list is full, a product has been pushed out of it, and a product seen
\* before was moved to the front
C12_Witness ==
    /\ Len(recentlyViewed) = 20
    /\ viewed > 20
    /\ reviews > 0
    /\ recentlyViewed[1] < recentlyViewed[2]

(***************************************************************************)
(* Properties of SecurityManager                                           *)
(***************************************************************************)

\* C13: in a window of a key whose calls all passed the same limit, at most
\* that many calls have returned true, and a call made once that many have
\* returned true returns false; a call on another key leaves the key's entry
\* as it was.
C13_FixedWindowLimiter ==
    /\ [](\A key \in Endpoints, limit \in Limits :
             windowLog[key].limits = {limit}
                => windowLog[key].granted <= limit)
    /\ [][\A endpoint \in Endpoints, limit \in Limits, windowMs \in WindowMs :
             checkRateLimit(endpoint, limit, windowMs)
                => /\ \A key \in DOMAIN rateLimitMap \ {endpoint} :
                         rateLimitMap'[key] = rateLimitMap[key]
                   /\ ( /\ ~OpensWindow(endpoint)
                        /\ windowLog[endpoint].limits = {limit}
                        /\ windowLog[endpoint].granted >= limit )
                      => ~returned']_vars

\* C14: isValid is true exactly for an allowed type with a size of at most
\* 10*1024*1024; a disallowed type gets the 'Invalid file type' error whatever
\* the size, an allowed type over the limit the 'File too large' error.
C14_ValidIffImageWithinSize ==
    validation /= NotValidated
       => LET allowed == file.type \in {"image/jpeg", "image/png",
                                         "image/gif", "image/webp"}
              within == file.size <= 10 * 1024 * 1024
          IN  /\ validation.isValid <=> (allowed /\ within)
              /\ ~allowed => validation.error =
                                "Invalid file type. Only images are allowed."
              /\ (allowed /\ ~within)
                    => validation.error =
                          "File too large. Maximum size is 10MB."

\* a file of a disallowed type that is also over the limit was validated
C14_Witness ==
    /\ validation /= NotValidated
    /\ file.type = "application/pdf"
    /\ file.size > 10 * 1024 * 1024
    /\ ~validation.isValid

====
